---------------------------- MODULE Spec2Model ----------------------------
(***************************************************************************)
(* Tufao::SessionSettings (src/src/sessionsettings.h): the settings a      *)
(* session uses for its cookie, and the function that turns the settings   *)
(* and a value into a QNetworkCookie.                                      *)
(*                                                                         *)
(* Byte strings (QByteArray) and strings (QString) are sequences of        *)
(* one-character strings; Nul stands for the byte 0.  A date-time is a     *)
(* record [valid, min, sec]: whole minutes and the seconds within the      *)
(* minute since the epoch, so that offsets of up to 2^31 minutes stay      *)
(* inside the integers the model checker can hold.                         *)
(***************************************************************************)
EXTENDS Integers, Sequences, FiniteSets, TLC

VARIABLES
    settings,     \* the SessionSettings object (never written by cookie())
    clock,        \* the wall clock, in seconds, QDateTime::currentDateTimeUtc() reads
    issued,       \* the calls made so far, in order, each with the cookie it returned
    frame,        \* per thread: the activation of cookie() it is running, if any
    obj,          \* the QNetworkCookie objects under construction, by storage slot
    cookiePath,   \* path rule: the settings' path
    requestPath,  \* path rule: the path of the request's uri
    matched       \* path rule: whether the cookie is included in the request

vars == <<settings, clock, issued, frame, obj, cookiePath, requestPath, matched>>

---------------------------------------------------------------------------
(* Bounds of the model.                                                    *)

MaxCalls == 2
MaxTicks == 2
TickSecs == 45
NumThreads == 2
MaxLen == 3

---------------------------------------------------------------------------
(* int timeout: 32 bits, two's complement.                                 *)

IntBits == 32
SecsPerMin == 60

Half == 2 ^ (IntBits \div 2)
IntMax == (Half \div 2 - 1) * Half + (Half - 1)
IntMin == (-IntMax) - 1
\* the largest |timeout| whose product with 60 is an int
MaxSafe == IntMax \div SecsPerMin

---------------------------------------------------------------------------
(* Byte strings and strings.                                               *)

Nul == "NUL"
Empty == << >>

isEmpty(ba) == Len(ba) = 0

\* qstrnlen: the number of bytes before the first 0 byte
qstrnlen(ba) ==
    IF \E i \in 1..Len(ba) : ba[i] = Nul
    THEN (CHOOSE i \in 1..Len(ba) :
              ba[i] = Nul /\ \A j \in 1..(i - 1) : ba[j] # Nul) - 1
    ELSE Len(ba)

\* setDomain and setPath take a QString, settings.domain and settings.path
\* are QByteArray: the argument goes through QString(const QByteArray &),
\* which converts the bytes up to the first 0 byte.
ToQString(ba) == SubSeq(ba, 1, qstrnlen(ba))

---------------------------------------------------------------------------
(* Date-times.                                                             *)

InvalidDate == [valid |-> FALSE, min |-> 0, sec |-> 0]

\* QDateTime::currentDateTimeUtc() when the clock shows c seconds
currentDateTimeUtc(c) ==
    [valid |-> TRUE, min |-> c \div SecsPerMin, sec |-> c % SecsPerMin]

\* an offset of m minutes and s seconds added to a date-time
AddOffset(dt, m, s) ==
    LET t == dt.sec + s
    IN  [valid |-> dt.valid,
         min   |-> dt.min + m + (t \div SecsPerMin),
         sec   |-> t % SecsPerMin]

\* QDateTime::addSecs(qint64)
addSecs(dt, secs) == AddOffset(dt, secs \div SecsPerMin, secs % SecsPerMin)

Before(a, b) == a.min < b.min \/ (a.min = b.min /\ a.sec < b.sec)

---------------------------------------------------------------------------
(* settings.timeout * 60 is a product of two ints.                         *)

\* whether t * 60 is outside the range of int
Overflows(t) == t > MaxSafe \/ t < -MaxSafe

\* t * k reduced modulo 2^32 to the range of int, computed by halves so
\* that no intermediate value leaves that range
MulWrap(t, k) ==
    LET a     == t \div Half
        b     == t % Half
        low   == b * k
        lo    == low % Half
        hi    == (a * k + (low \div Half)) % Half
    IN  IF hi >= Half \div 2 THEN (hi - Half) * Half + lo ELSE hi * Half + lo

\* What a build can make of the product when it overflows (undefined
\* behaviour): "wrap", the 32-bit product sign-extended to addSecs' qint64,
\* or "wide", the product taken in 64 bits.  Without overflow both agree.
Products(t) == IF Overflows(t) THEN {"wrap", "wide"} ELSE {"exact"}

---------------------------------------------------------------------------
(* QNetworkCookie and the body of SessionSettings::cookie (static).        *)

\* QNetworkCookie cookie;
DefaultCookie ==
    [name |-> Empty, value |-> Empty, expiration |-> InvalidDate,
     httpOnly |-> FALSE, secure |-> FALSE, path |-> Empty, domain |-> Empty]

\* the date handed to setExpirationDate when the clock reads `at` seconds
ExpirationDate(timeout, at, product) ==
    IF product = "wide"
    THEN AddOffset(currentDateTimeUtc(at), timeout, 0)
    ELSE addSecs(currentDateTimeUtc(at), MulWrap(timeout, SecsPerMin))

SetExpiryPositiveOnly(c, s, at, product) ==
    IF s.timeout > 0
    THEN [c EXCEPT !.expiration = ExpirationDate(s.timeout, at, product)]
    ELSE c

\* if (settings.timeout) cookie.setExpirationDate(now.addSecs(timeout * 60))
SetExpiry(c, s, at, product) ==
    IF s.timeout # 0
    THEN [c EXCEPT !.expiration = ExpirationDate(s.timeout, at, product)]
    ELSE c

SetFlagsBothHttpOnly(c, s) ==
    [c EXCEPT !.httpOnly = s.httpOnly, !.secure = s.httpOnly]

\* cookie.setHttpOnly(settings.httpOnly); cookie.setSecure(settings.secure);
SetFlags(c, s) ==
    [c EXCEPT !.httpOnly = s.httpOnly, !.secure = s.secure]

\* if (!settings.domain.isEmpty()) cookie.setDomain(settings.domain);
\* if (!settings.path.isEmpty()) cookie.setPath(settings.path);
SetScope(c, s) ==
    LET d == IF ~isEmpty(s.domain)
             THEN [c EXCEPT !.domain = ToQString(s.domain)] ELSE c
    IN  IF ~isEmpty(s.path) THEN [d EXCEPT !.path = ToQString(s.path)] ELSE d

\* cookie.setName(settings.name); cookie.setValue(value);
SetIdent(c, s, value) == [c EXCEPT !.name = s.name, !.value = value]

\* static QNetworkCookie cookie(const SessionSettings &, const QByteArray &),
\* run alone, reading the clock at `at` seconds
cookie(s, value, at, product) ==
    SetIdent(SetScope(SetFlags(SetExpiry(DefaultCookie, s, at, product), s), s),
             s, value)

\* const QByteArray &value = QByteArray()
DefaultValue == Empty

\* the value parameter of a call: the argument, or the default when omitted
ValueOf(arg) == IF arg.given THEN arg.value ELSE DefaultValue

---------------------------------------------------------------------------
(* The inputs.                                                             *)

Timeouts == {IntMin, -1, 0, 30, MaxSafe, MaxSafe + 1}
Names    == {Empty, <<"s", "i", "d">>}
Paths    == {Empty, <<"/", "a">>, <<Nul, "/">>}
Domains  == {Empty, <<"e", ".", "c">>}
Values   == {Empty, <<"x", "y", "z">>}

SessionSettings ==
    [timeout : Timeouts, httpOnly : BOOLEAN, name : Names, path : Paths,
     secure : BOOLEAN, domain : Domains]

Args == {[given |-> FALSE, value |-> Empty]}
            \cup {[given |-> TRUE, value |-> v] : v \in Values}

Threads == 1..NumThreads

Idle == [pc |-> "idle", form |-> "none", arg |-> [given |-> FALSE, value |-> Empty],
         value |-> Empty, at |-> 0, product |-> "exact", ret |-> DefaultCookie]

---------------------------------------------------------------------------
(* Calls made one after the other.                                         *)

Init ==
    /\ settings \in SessionSettings
    /\ clock = 0
    /\ issued = << >>
    /\ frame = [t \in Threads |-> Idle]
    /\ obj = [t \in Threads |-> DefaultCookie]
    /\ cookiePath = Empty
    /\ requestPath = Empty
    /\ matched = "pending"

\* the wall clock advances
Tick ==
    /\ clock < MaxTicks * TickSecs
    /\ clock' = clock + TickSecs
    /\ UNCHANGED <<settings, issued, frame, obj, cookiePath, requestPath, matched>>

DeriveClobber(arg, product) ==
    /\ Len(issued) < MaxCalls
    /\ issued' = Append(issued,
                   [arg |-> arg, at |-> clock, product |-> product,
                    cookie |-> cookie(settings, ValueOf(arg), clock, product)])
    /\ settings' = [settings EXCEPT !.timeout = 0]
    /\ UNCHANGED <<clock, frame, obj, cookiePath, requestPath, matched>>

\* cookie(settings, value) or cookie(settings): the whole call
Derive(arg, product) ==
    /\ Len(issued) < MaxCalls
    /\ issued' = Append(issued,
                   [arg |-> arg, at |-> clock, product |-> product,
                    cookie |-> cookie(settings, ValueOf(arg), clock, product)])
    /\ UNCHANGED <<settings, clock, frame, obj, cookiePath, requestPath, matched>>

Call == \E arg \in Args : \E product \in Products(settings.timeout) : Derive(arg, product)

Next == Tick \/ Call

Spec == Init /\ [][Next]_vars

---------------------------------------------------------------------------
(* Properties of calls made one after the other (Spec).                    *)

Calls == 1..Len(issued)

\* the clock reading of call i plus settings.timeout minutes
SlidingExpiry(i) ==
    AddOffset(currentDateTimeUtc(issued[i].at), settings.timeout, 0)

\* C1: the cookie returned has an expiration date if and only if
\* settings.timeout is not zero, whatever the sign of the timeout.
C1_ExpirationIffTimeout ==
    \A i \in Calls : issued[i].cookie.expiration.valid <=> (settings.timeout # 0)

C1_Witness ==
    \E i \in Calls : settings.timeout < 0 /\ issued[i].cookie.expiration.valid

\* C2: with a timeout T # 0, the expiration of every cookie is the clock
\* read by its call plus T minutes, and a later call never yields an earlier
\* expiration than a call before it.
C2_SlidingWindow ==
    settings.timeout # 0 =>
        /\ \A i \in Calls : issued[i].cookie.expiration = SlidingExpiry(i)
        /\ \A i, j \in Calls :
              i < j => ~Before(issued[j].cookie.expiration,
                               issued[i].cookie.expiration)

\* C3: the cookie carries the settings' httpOnly, secure and name and the
\* value supplied; with the value omitted its value is the empty byte string.
C3_FlagsNameValue ==
    \A i \in Calls :
        /\ issued[i].cookie.httpOnly = settings.httpOnly
        /\ issued[i].cookie.secure = settings.secure
        /\ issued[i].cookie.name = settings.name
        /\ issued[i].arg.given => issued[i].cookie.value = issued[i].arg.value
        /\ ~issued[i].arg.given => issued[i].cookie.value = Empty

C3_Witness ==
    /\ settings.httpOnly /\ ~settings.secure /\ settings.name = Empty
    /\ \E i, j \in Calls :
          /\ ~issued[i].arg.given /\ issued[i].cookie.value = Empty
          /\ issued[j].arg.given /\ issued[j].cookie.value # Empty
          /\ issued[j].cookie.httpOnly /\ ~issued[j].cookie.secure

\* C4: the cookie has a path if and only if settings.path is not empty, and
\* then it equals settings.path; likewise, and independently, for the domain.
C4_PathDomainCopied ==
    \A i \in Calls :
        /\ (issued[i].cookie.path # Empty) <=> (settings.path # Empty)
        /\ settings.path # Empty => issued[i].cookie.path = settings.path
        /\ (issued[i].cookie.domain # Empty) <=> (settings.domain # Empty)
        /\ settings.domain # Empty => issued[i].cookie.domain = settings.domain

\* C9: a call leaves every field of the settings as it was, and the cookies
\* returned by earlier calls as they were: all it adds is the cookie it
\* returns.
C9_NoSideEffects ==
    [][/\ settings' = settings
       /\ Len(issued') >= Len(issued)
       /\ SubSeq(issued', 1, Len(issued)) = issued
       /\ issued' # issued => (Len(issued') = Len(issued) + 1 /\ clock' = clock)]_vars

C9_Witness ==
    /\ Len(issued) = 2
    /\ issued[1].cookie # issued[2].cookie

\* C10: for every non-zero timeout the offset added to the clock is exactly
\* timeout * 60 seconds, also when that product is not an int, and a positive
\* timeout never yields an expiration at or before the time of the call.
C10_ExactOffset ==
    \A i \in Calls :
        settings.timeout # 0 =>
            /\ issued[i].cookie.expiration = SlidingExpiry(i)
            /\ settings.timeout > 0 =>
                   Before(currentDateTimeUtc(issued[i].at),
                          issued[i].cookie.expiration)

---------------------------------------------------------------------------
(* Calls made by several threads against the same settings, statement by   *)
(* statement.  frame[t] holds thread t's parameters and program counter,   *)
(* obj[CookieSlot(t)] the local `cookie` of its activation.                *)

ConcSettings ==
    { [timeout |-> 0, httpOnly |-> FALSE, name |-> Empty, path |-> Empty,
       secure |-> FALSE, domain |-> Empty],
      [timeout |-> 30, httpOnly |-> TRUE, name |-> <<"s", "i", "d">>,
       path |-> <<"/", "a">>, secure |-> TRUE, domain |-> Empty],
      [timeout |-> -1, httpOnly |-> TRUE, name |-> Empty, path |-> Empty,
       secure |-> FALSE, domain |-> <<"e", ".", "c">>] }

ConcArgs == {[given |-> FALSE, value |-> Empty],
             [given |-> TRUE, value |-> <<"x", "y", "z">>]}

InitConc ==
    /\ settings \in ConcSettings
    /\ clock = 0
    /\ issued = << >>
    /\ frame = [t \in Threads |-> Idle]
    /\ obj = [t \in Threads |-> DefaultCookie]
    /\ cookiePath = Empty
    /\ requestPath = Empty
    /\ matched = "pending"

SharedSlot(t) == 1

\* QNetworkCookie cookie; an automatic variable: each activation has its own
CookieSlot(t) == t

InstanceDropsValue(arg) == DefaultValue

\* QNetworkCookie cookie(const QByteArray &value = QByteArray()) const
\* { return cookie(*this, value); }: the value it hands to the static form
InstanceValue(arg) == ValueOf(arg)

Rest == <<settings, issued, cookiePath, requestPath, matched>>

TickConc ==
    /\ clock < MaxTicks * TickSecs
    /\ clock' = clock + TickSecs
    /\ UNCHANGED <<frame, obj>>
    /\ UNCHANGED Rest

\* a thread calls SessionSettings::cookie(settings, value) and its
\* activation begins: QNetworkCookie cookie;
CallStatic(t, arg) ==
    /\ frame[t].pc = "idle"
    /\ frame' = [frame EXCEPT ![t] =
                    [Idle EXCEPT !.pc = "expiry", !.form = "static",
                                 !.arg = arg, !.value = ValueOf(arg)]]
    /\ obj' = [obj EXCEPT ![CookieSlot(t)] = DefaultCookie]
    /\ UNCHANGED clock
    /\ UNCHANGED Rest

\* a thread calls settings.cookie(value), which calls the static form
CallInstance(t, arg) ==
    /\ frame[t].pc = "idle"
    /\ frame' = [frame EXCEPT ![t] =
                    [Idle EXCEPT !.pc = "expiry", !.form = "instance",
                                 !.arg = arg, !.value = InstanceValue(arg)]]
    /\ obj' = [obj EXCEPT ![CookieSlot(t)] = DefaultCookie]
    /\ UNCHANGED clock
    /\ UNCHANGED Rest

\* if (settings.timeout) { cookie.setExpirationDate(...); }
Expiry(t) ==
    /\ frame[t].pc = "expiry"
    /\ \E product \in Products(settings.timeout) :
          /\ obj' = [obj EXCEPT ![CookieSlot(t)] =
                        SetExpiry(obj[CookieSlot(t)], settings, clock, product)]
          /\ frame' = [frame EXCEPT ![t].pc = "fill",
                                    ![t].at = IF settings.timeout # 0 THEN clock ELSE 0,
                                    ![t].product = product]
    /\ UNCHANGED clock
    /\ UNCHANGED Rest

FillValidated(t) ==
    /\ frame[t].pc = "fill"
    /\ ~isEmpty(settings.name)
    /\ obj' = [obj EXCEPT ![CookieSlot(t)] =
                  SetIdent(SetScope(SetFlags(obj[CookieSlot(t)], settings), settings),
                           settings, frame[t].value)]
    /\ frame' = [frame EXCEPT ![t].pc = "return"]
    /\ UNCHANGED clock
    /\ UNCHANGED Rest

\* setHttpOnly, setSecure, setDomain, setPath, setName, setValue
Fill(t) ==
    /\ frame[t].pc = "fill"
    /\ obj' = [obj EXCEPT ![CookieSlot(t)] =
                  SetIdent(SetScope(SetFlags(obj[CookieSlot(t)], settings), settings),
                           settings, frame[t].value)]
    /\ frame' = [frame EXCEPT ![t].pc = "return"]
    /\ UNCHANGED clock
    /\ UNCHANGED Rest

\* return cookie; the caller gets a copy and the local is destroyed
Return(t) ==
    /\ frame[t].pc = "return"
    /\ frame' = [frame EXCEPT ![t].pc = "done", ![t].ret = obj[CookieSlot(t)]]
    /\ obj' = [obj EXCEPT ![CookieSlot(t)] = DefaultCookie]
    /\ UNCHANGED clock
    /\ UNCHANGED Rest

\* the next statement of thread t's activation
Step(t) == Expiry(t) \/ Fill(t) \/ Return(t)

Enter == \E t \in Threads : \E arg \in ConcArgs : CallStatic(t, arg) \/ CallInstance(t, arg)

Run == \E t \in Threads : Step(t)

NextConc == TickConc \/ Enter \/ Run

SpecConc == InitConc /\ [][NextConc]_vars

---------------------------------------------------------------------------
(* Properties of concurrent calls (SpecConc).                              *)

InCall(t) == frame[t].pc \in {"expiry", "fill", "return"}

\* C6: a call of the instance form returns, field by field, the cookie the
\* static form yields for the same settings, the caller's value (the empty
\* byte string when omitted) and the same clock reading.
C6_InstanceEqualsStatic ==
    \A t \in Threads :
        (frame[t].pc = "done" /\ frame[t].form = "instance") =>
            frame[t].ret = cookie(settings, ValueOf(frame[t].arg),
                                  frame[t].at, frame[t].product)

C6_Witness ==
    \E t \in Threads :
        /\ frame[t].pc = "done" /\ frame[t].form = "instance"
        /\ frame[t].arg.given /\ frame[t].arg.value # Empty
        /\ frame[t].ret.value = frame[t].arg.value
        /\ frame[t].ret.expiration.valid

\* C7: a call has no error outcome: whatever the settings and the value, every
\* statement of a call that has begun can run, and the call returns a cookie
\* named after the settings, an empty name included.
C7_NoErrorOutcome ==
    \A t \in Threads :
        /\ InCall(t) => ENABLED Step(t)
        /\ frame[t].pc = "done" => frame[t].ret.name = settings.name

C7_Witness ==
    \E t \in Threads :
        /\ frame[t].pc = "done"
        /\ settings.name = Empty /\ settings.path = Empty /\ settings.timeout <= 0
        /\ frame[t].ret.name = Empty

\* C8: under any interleaving, a call returns the cookie it would return run
\* alone with its own value and its own clock reading.
C8_ConcurrentCallsIndependent ==
    \A t \in Threads :
        frame[t].pc = "done" =>
            frame[t].ret = cookie(settings, frame[t].value,
                                  frame[t].at, frame[t].product)

\* u read the clock before t did and is still running when t has returned
C8_Witness ==
    \E t, u \in Threads :
        /\ frame[t].pc = "done" /\ frame[u].pc = "return"
        /\ frame[u].at < frame[t].at
        /\ frame[t].value # frame[u].value
        /\ frame[t].ret.value = frame[t].value
        /\ obj[CookieSlot(u)].value = frame[u].value

---------------------------------------------------------------------------
(* The rule that decides whether a cookie is included in a request, as the *)
(* documentation of SessionSettings::path states it.                       *)

\* QByteArray::startsWith
startsWith(ba, prefix) ==
    Len(prefix) <= Len(ba) /\ SubSeq(ba, 1, Len(prefix)) = prefix

midKeepsFirst(ba, pos) == SubSeq(ba, pos, Len(ba))

\* QByteArray::mid(pos): the bytes from index pos (counted from 0) on
mid(ba, pos) == SubSeq(ba, pos + 1, Len(ba))

\*   - cookiePath == requestPath
\*   - requestPath.startsWith(cookiePath)
\*   - requestPath[0] == '/' && requestPath.mid(1).startsWith(cookiePath)
PathMatch(cp, rp) ==
    \/ cp = rp
    \/ startsWith(rp, cp)
    \/ (Len(rp) > 0 /\ rp[1] = "/" /\ startsWith(mid(rp, 1), cp))

PathAlphabet == {"/", "f"}

Strs == UNION {[1..n -> PathAlphabet] : n \in 0..MaxLen}

Foo      == <<"/", "f", "o", "o">>
FooBar   == <<"/", "f", "o", "o", "/", "b", "a", "r">>
SlashFoo == <<"/", "/", "f", "o", "o">>
Bar      == <<"/", "b", "a", "r">>

CookiePaths  == Strs \cup {Foo}
RequestPaths == Strs \cup {Foo, FooBar, SlashFoo, Bar}

InitPath ==
    /\ settings = [timeout |-> 0, httpOnly |-> FALSE, name |-> Empty,
                   path |-> Empty, secure |-> FALSE, domain |-> Empty]
    /\ clock = 0
    /\ issued = << >>
    /\ frame = [t \in Threads |-> Idle]
    /\ obj = [t \in Threads |-> DefaultCookie]
    /\ cookiePath \in CookiePaths
    /\ requestPath \in RequestPaths
    /\ matched = "pending"

\* the rule is applied to the request
Match ==
    /\ matched = "pending"
    /\ matched' = IF PathMatch(cookiePath, requestPath) THEN "included" ELSE "excluded"
    /\ UNCHANGED <<settings, clock, issued, frame, obj, cookiePath, requestPath>>

NextPath == Match

SpecPath == InitPath /\ [][NextPath]_vars

\* cookiePath occurs in requestPath at offset k
OccursAt(k) ==
    /\ Len(cookiePath) + k <= Len(requestPath)
    /\ \A i \in 1..Len(cookiePath) : requestPath[i + k] = cookiePath[i]

====
